---- MODULE Spec2Model ----
(***************************************************************************)
(* The publish-once pipelines of MokhberAi: Pods.process_all_podcasts,     *)
(* main3.process_feeds and main5.process_feeds.  One behaviour is a        *)
(* sequence of non-overlapping runs of one of the three scripts; a run     *)
(* visits its groups in a shuffled order and drives at most one item per   *)
(* group through discovery, extraction, summarisation, formatting, publish *)
(* and the history write.  Everything outside the scripts (feeds, pages,   *)
(* the summariser provider, the Telegram API, an interruption of the       *)
(* process) is a nondeterministic input of the step that consults it.      *)
(***************************************************************************)
EXTENDS Integers, Sequences, FiniteSets, TLC

(***************************************************************************)
(* Bounds of the model.                                                    *)
(***************************************************************************)
MaxRuns == 2
NumGroups == 2
NumOrigins == 2
MaxFeedLen == 3

(***************************************************************************)
(* Characters, identifiers and the history file format.                    *)
(***************************************************************************)
NL == "\n"
SP == " "
\* None and a missing file, as values comparable with identifiers and contents
None == <<"None">>
Missing == <<"FileNotFoundError">>

Ida == <<"a">>
Idb == <<"b">>
Idc == <<"c", "c">>
Ids == {Ida, Idb, Idc}

\* ord(c) for the characters of the model (Python compares str by code point)
Ord(c) ==
  CASE c = NL -> 10
    [] c = SP -> 32
    [] c = "a" -> 97
    [] c = "b" -> 98
    [] c = "c" -> 99

IsSpace(c) == c \in {NL, SP}

\* Python's s < t on str: lexicographic on code points, a proper prefix first
RECURSIVE StrLess(_, _)
StrLess(s, t) ==
  IF t = <<>> THEN FALSE
  ELSE IF s = <<>> THEN TRUE
  ELSE IF Ord(Head(s)) # Ord(Head(t)) THEN Ord(Head(s)) < Ord(Head(t))
  ELSE StrLess(Tail(s), Tail(t))

\* sorted(links): ascending list of the members of a set of str
RECURSIVE Sorted(_)
Sorted(S) ==
  IF S = {} THEN <<>>
  ELSE LET m == CHOOSE x \in S : \A y \in S \ {x} : StrLess(x, y)
       IN <<m>> \o Sorted(S \ {m})

\* variant: the lines are joined by '\n', the last one is left unterminated
RECURSIVE WriteJoined(_)
WriteJoined(lines) ==
  IF Len(lines) <= 1 THEN (IF lines = <<>> THEN <<>> ELSE Head(lines))
  ELSE Head(lines) \o <<NL>> \o WriteJoined(Tail(lines))

\* for link in sorted(links): f.write(link + '\n')
RECURSIVE WriteLines(_)
WriteLines(lines) ==
  IF lines = <<>> THEN <<>>
  ELSE Head(lines) \o <<NL>> \o WriteLines(Tail(lines))

FileContent(links) == WriteLines(Sorted(links))

\* str.strip(): leading and trailing whitespace removed
RECURSIVE LStrip(_)
LStrip(s) ==
  IF s # <<>> /\ IsSpace(Head(s)) THEN LStrip(Tail(s)) ELSE s

RECURSIVE RStrip(_)
RStrip(s) ==
  IF s # <<>> /\ IsSpace(s[Len(s)]) THEN RStrip(SubSeq(s, 1, Len(s) - 1)) ELSE s

Strip(s) == RStrip(LStrip(s))

\* iteration over a text file: one line per '\n', the terminator kept; a last
\* line without terminator is a line too
RECURSIVE FileLines(_, _)
FileLines(content, cur) ==
  IF content = <<>> THEN (IF cur = <<>> THEN <<>> ELSE <<cur>>)
  ELSE IF Head(content) = NL
       THEN <<cur \o <<NL>>>> \o FileLines(Tail(content), <<>>)
       ELSE FileLines(Tail(content), cur \o <<Head(content)>>)

\* variant: the load returns the empty set whatever the file holds
ReadNothing(file) == {}

\* set(line.strip() for line in f), FileNotFoundError giving the empty set
ReadHistory(file) ==
  IF file = Missing THEN {}
  ELSE LET ls == FileLines(file, <<>>)
       IN {Strip(ls[i]) : i \in 1..Len(ls)}

(***************************************************************************)
(* Configuration: the scripts, their groups and the outside world's        *)
(* catalogue of items.                                                     *)
(***************************************************************************)
Progs == {"Pods", "main3", "main5"}

Groups == 1..NumGroups

\* POSTED_LINKS_FILE of main3/main5; the history_file of Pods group g is g
POSTED_LINKS_FILE == 0
Files == {POSTED_LINKS_FILE} \cup Groups

\* entries[:20] of main3
SampleLimit == 20

\* minimum lengths below which the get_ai_* functions return None unasked
MinTranscriptLen == 500
MinDescriptionLen == 100
MinNewsLen == 50

\* the items the origins can surface, newest first: link and enclosure href
Catalog ==
  << [link |-> Ida, encl |-> Idb],
     [link |-> Idb, encl |-> Ida],
     [link |-> Idc, encl |-> None] >>

NoEntry == [link |-> None, encl |-> None]

\* the subsequence of s at the positions in P
RECURSIVE Pick(_, _, _)
Pick(s, P, i) ==
  IF i > Len(s) THEN <<>>
  ELSE (IF i \in P THEN <<s[i]>> ELSE <<>>) \o Pick(s, P, i + 1)

\* what one origin can return: some of the catalogue, newest first
Feeds ==
  {Pick(Catalog, P, 1) : P \in {Q \in SUBSET (1..Len(Catalog)) : Cardinality(Q) <= MaxFeedLen}}

\* feedparser.parse / an index scrape: entries, or an exception
FetchResults ==
  {[raised |-> FALSE, entries |-> f] : f \in Feeds}
    \cup {[raised |-> TRUE, entries |-> <<>>]}

\* what a get_ai_* call can return: None (or an empty value), a mapping, or
\* valid JSON that is truthy but no mapping
AiResults == {"none", "dict", "list"}

\* what the Lex Fridman episode page can give
Pages == {"nopage", "noyoutube", "ok"}

\* random.shuffle: every order of the elements of s
Perms(s) ==
  {p \in [1..Len(s) -> 1..Len(s)] : \A i, j \in 1..Len(s) : i # j => p[i] # p[j]}

Shuffles(s) == {[i \in 1..Len(s) |-> s[p[i]]] : p \in Perms(s)}

RECURSIVE SeqOf(_, _)
SeqOf(lo, hi) == IF lo > hi THEN <<>> ELSE <<lo>> \o SeqOf(lo + 1, hi)

Min(a, b) == IF a < b THEN a ELSE b

(***************************************************************************)
(* State.                                                                  *)
(***************************************************************************)
VARIABLES
  prog,             \* the script whose runs this behaviour shows
  config,           \* PODCASTS[g]['scraper_type'] / SOURCES[g]['type']
  env,              \* TELEGRAM_TOKEN, TELEGRAM_CHANNEL_ID, GEMINI_API_KEY set?
  fs,               \* the history files: content, or Missing
  runNo,            \* runs started so far
  pc,               \* position of the running script; "idle" after a run has
                    \* ended, "killed" after it was interrupted
  order,            \* the shuffled groups still to visit
  cur,              \* the group being processed (0: none)
  posted_links,     \* the in-memory history set
  new_links_found,  \* main3/main5: something to save at the end of the run
  unseen,           \* all_new_episodes / unique_episodes, until the choice
  queue,            \* main3: the shuffled potential_entries still to try
  sel,              \* the selected entry
  unique_id,        \* unique_id / link_to_check
  image,            \* content_data['image_url'] is set
  success,          \* Pods: the publisher's return value
  \* observations of the run, read by the properties only
  fetched,          \* what each origin returned, until the choice
  histAtLoad,       \* the set the history load returned
  fsAtStart,        \* the files when the run started
  log,              \* per item tried for this group: what each stage did
  sent,             \* messages delivered by this group's publish, in order
  delivered,        \* per file and identifier, the publishes that delivered a post
  confirmed,        \* per file, identifiers published with full success this run
  settled,          \* confirmed, as of the start of the current group
  visited,          \* the groups whose loop body this run has entered
  postedAtBegin,    \* posted_links as the current group found it
  \* the texts of a publish, followed by the Payloads specification only
  body,             \* the rendered message handed to the publisher
  texts,            \* the 'text' of each sendMessage payload, in order
  \* runs side by side on one history file, followed by the Overlap
  \* specification only
  procs,            \* per process: its position and its in-memory history
  exclusive         \* a run starts only when no other run is under way

\* what no step of a run changes: the configuration, the environment, and the
\* texts and processes that only the Payloads and Overlap specifications follow
confVars == <<prog, config, env, body, texts, procs, exclusive>>
groupVars == <<unseen, queue, sel, unique_id, image, success>>
obsGroup == <<fetched, log, sent>>
obsRun == <<histAtLoad, fsAtStart, delivered, confirmed, settled, visited, postedAtBegin>>
vars ==
  <<prog, config, env, fs, runNo, pc, order, cur, posted_links, new_links_found,
    unseen, queue, sel, unique_id, image, success,
    fetched, histAtLoad, fsAtStart, log, sent, delivered, confirmed, settled,
    visited, postedAtBegin, body, texts, procs, exclusive>>

(***************************************************************************)
(* Configuration lookups.                                                  *)
(***************************************************************************)
\* the scraper types in the order of the PODCASTS table
PodcastTable ==
  <<"philosophybites_web", "philosophizethis_web", "multi_rss_random",
    "podscribe_rss", "lexfridman">>

\* the SOURCES tables of main3 (one type) and main5 (popsci, nvidia_news)
SourceType(p, g) ==
  IF p = "main3" THEN "sciencedaily"
  ELSE IF g = 1 THEN "popsci" ELSE "nvidia_news"

\* a run's groups: NumGroups consecutive rows of PODCASTS, or the SOURCES
Configs(p) ==
  IF p = "Pods"
  THEN {[g \in Groups |-> PodcastTable[((k + g - 1) % Len(PodcastTable)) + 1]] :
          k \in 0..(Len(PodcastTable) - 1)}
  ELSE {[g \in Groups |-> SourceType(p, g)]}

\* podcaster_config['history_file'] / POSTED_LINKS_FILE
HistoryFile(g) == IF prog = "Pods" THEN g ELSE POSTED_LINKS_FILE

\* the groups whose branch draws with random.choice from all unseen candidates
RandomChoice(g) ==
  prog = "main5" \/ (prog = "Pods" /\ config[g] \in {"philosophybites_web", "multi_rss_random"})

\* not TELEGRAM_TOKEN or not TELEGRAM_CHANNEL_ID
TelegramReady == env.token /\ env.channel

\* the startup check: AI_PROVIDER == 'gemini' and not GEMINI_API_KEY
CredentialsOK == env.gemini

(***************************************************************************)
(* Identifiers of entries.                                                 *)
(***************************************************************************)
\* unique_id = episode.get('link'); if enclosures: enclosures[0].get('href', unique_id)
EnclosureId(e) == IF e.encl # None THEN e.encl ELSE e.link

\* variant: every branch takes the entry's link as identifier at discovery
LinkId(g, e) == e.link

\* the identifier the group's branch uses for an entry
UniqueId(g, e) ==
  IF prog = "Pods" /\ config[g] \in {"multi_rss_random", "podscribe_rss"}
  THEN EnclosureId(e) ELSE e.link

\* variant: the candidates are not filtered against the history
UnpostedKeepAll(g, entries, posted) == entries

\* [e for e in entries if id(e) not in posted]
RECURSIVE Unposted(_, _, _)
Unposted(g, entries, posted) ==
  IF entries = <<>> THEN <<>>
  ELSE (IF UniqueId(g, Head(entries)) \notin posted THEN <<Head(entries)>> ELSE <<>>)
         \o Unposted(g, Tail(entries), posted)

\* variant: only the first origin of the group is read
AggregateFirstOrigin(g, results, posted, i) == Unposted(g, results[1].entries, posted)

\* the aggregation loop over the origins of a group
RECURSIVE Aggregate(_, _, _, _)
Aggregate(g, results, posted, i) ==
  IF i > Len(results) THEN <<>>
  ELSE Unposted(g, results[i].entries, posted) \o Aggregate(g, results, posted, i + 1)

\* {ep['url']: ep for ep in all_new_episodes}.values(): one episode per url,
\* at the place of the url's first occurrence, holding its last occurrence
RECURSIVE DedupByUrl(_, _)
DedupByUrl(eps, seen) ==
  IF eps = <<>> THEN <<>>
  ELSE LET e == Head(eps)
           later == {i \in 1..Len(eps) : eps[i].link = e.link}
           last == eps[CHOOSE i \in later : \A j \in later : j <= i]
       IN IF e.link \in seen THEN DedupByUrl(Tail(eps), seen)
          ELSE <<last>> \o DedupByUrl(Tail(eps), seen \cup {e.link})

\* the loop variable unique_id as the multi_rss_random aggregation leaves it
RECURSIVE LastIterated(_, _, _)
LastIterated(g, results, i) ==
  IF i = 0 THEN None
  ELSE IF results[i].entries # <<>>
       THEN UniqueId(g, results[i].entries[Len(results[i].entries)])
       ELSE LastIterated(g, results, i - 1)

IdsOf(g, entries) == {UniqueId(g, entries[i]) : i \in 1..Len(entries)}

(***************************************************************************)
(* Initial state: nothing published yet, no history file on disk.          *)
(***************************************************************************)
Init ==
  /\ prog \in Progs
  /\ config \in Configs(prog)
  /\ env \in [token : BOOLEAN, channel : BOOLEAN, gemini : BOOLEAN]
  /\ fs = [f \in Files |-> Missing]
  /\ runNo = 0
  /\ pc = "idle"
  /\ order = <<>>
  /\ cur = 0
  /\ posted_links = {}
  /\ new_links_found = FALSE
  /\ unseen = <<>>
  /\ queue = <<>>
  /\ sel = NoEntry
  /\ unique_id = None
  /\ image = FALSE
  /\ success = FALSE
  /\ fetched = <<>>
  /\ histAtLoad = {}
  /\ fsAtStart = fs
  /\ log = <<>>
  /\ sent = <<>>
  /\ delivered = [f \in Files |-> [i \in Ids |-> 0]]
  /\ confirmed = [f \in Files |-> {}]
  /\ settled = [f \in Files |-> {}]
  /\ visited = {}
  /\ postedAtBegin = {}
  /\ body = <<>>
  /\ texts = <<>>
  /\ procs = <<>>
  /\ exclusive = TRUE

\* the locals of one group, as a new loop iteration finds them
GroupReset ==
  /\ unseen' = <<>>
  /\ queue' = <<>>
  /\ sel' = NoEntry
  /\ unique_id' = None
  /\ image' = FALSE
  /\ success' = FALSE

ObsReset ==
  /\ fetched' = <<>>
  /\ log' = <<>>
  /\ sent' = <<>>

\* the process is gone: nothing of its memory remains
Forget ==
  /\ order' = <<>>
  /\ cur' = 0
  /\ posted_links' = {}
  /\ new_links_found' = FALSE
  /\ GroupReset
  /\ ObsReset

\* the script returns, or an exception nothing catches ends it
ProcessExit ==
  /\ pc' = "idle"
  /\ Forget

\* `continue`, the end of the group's branch, or an exception caught by the
\* group's handler: on to the next group
NextGroup ==
  /\ pc' = "next"
  /\ unseen' = <<>>
  /\ queue' = <<>>

(***************************************************************************)
(* Start of a run.                                                         *)
(***************************************************************************)
NewRun ==
  /\ pc \in {"idle", "killed"}
  /\ runNo < MaxRuns
  /\ runNo' = runNo + 1
  /\ fsAtStart' = fs
  /\ confirmed' = [f \in Files |-> {}]
  /\ settled' = [f \in Files |-> {}]
  /\ visited' = {}
  /\ postedAtBegin' = {}
  /\ ObsReset

\* __main__: the provider's key is missing, nothing is processed
FatalMissingKey ==
  /\ NewRun
  /\ ~CredentialsOK
  /\ histAtLoad' = {}
  /\ UNCHANGED <<confVars, fs, pc, order, cur, posted_links, new_links_found,
                 groupVars, delivered>>

\* Pods.process_all_podcasts: shuffle the group names
StartPods ==
  /\ NewRun
  /\ CredentialsOK
  /\ prog = "Pods"
  /\ order' \in Shuffles(SeqOf(1, NumGroups))
  /\ pc' = "next"
  /\ histAtLoad' = {}
  /\ UNCHANGED <<confVars, fs, cur, posted_links, new_links_found, groupVars, delivered>>

\* main3/main5.process_feeds: load the shared history once, shuffle the sources
StartFeeds ==
  /\ NewRun
  /\ CredentialsOK
  /\ prog \in {"main3", "main5"}
  /\ posted_links' = ReadHistory(fs[POSTED_LINKS_FILE])
  /\ histAtLoad' = ReadHistory(fs[POSTED_LINKS_FILE])
  /\ new_links_found' = FALSE
  /\ order' \in Shuffles(SeqOf(1, NumGroups))
  /\ pc' = "next"
  /\ UNCHANGED <<confVars, fs, cur, groupVars, delivered>>

(***************************************************************************)
(* The loop over the groups.                                               *)
(***************************************************************************)
\* Pods: the head of the loop body, with the group's history load
BeginPodcast ==
  /\ pc = "next"
  /\ order # <<>>
  /\ prog = "Pods"
  /\ cur' = Head(order)
  /\ order' = Tail(order)
  /\ posted_links' = ReadHistory(fs[Head(order)])
  /\ histAtLoad' = ReadHistory(fs[Head(order)])
  /\ GroupReset
  /\ ObsReset
  /\ settled' = confirmed
  /\ visited' = visited \cup {Head(order)}
  /\ postedAtBegin' = ReadHistory(fs[Head(order)])
  /\ pc' = "discover"
  /\ UNCHANGED <<confVars, fs, runNo, new_links_found, fsAtStart, delivered, confirmed>>

\* Pods: the history load stands before the group's try and catches only
\* FileNotFoundError; a file that is there and cannot be read (permissions, bytes
\* that are not UTF-8) raises out of the loop and ends the run
LoadRaises ==
  /\ pc = "next"
  /\ order # <<>>
  /\ prog = "Pods"
  /\ fs[Head(order)] # Missing
  /\ visited' = visited \cup {Head(order)}
  /\ ProcessExit
  /\ UNCHANGED <<confVars, fs, runNo, histAtLoad, fsAtStart, delivered, confirmed,
                 settled, postedAtBegin>>

\* main3/main5: the head of the loop body
BeginSource ==
  /\ pc = "next"
  /\ order # <<>>
  /\ prog \in {"main3", "main5"}
  /\ cur' = Head(order)
  /\ order' = Tail(order)
  /\ GroupReset
  /\ ObsReset
  /\ settled' = confirmed
  /\ visited' = visited \cup {Head(order)}
  /\ postedAtBegin' = posted_links
  /\ pc' = "discover"
  /\ UNCHANGED <<confVars, fs, runNo, posted_links, new_links_found, histAtLoad,
                 fsAtStart, delivered, confirmed>>

\* Pods: the loop is over, the run ends
EndPods ==
  /\ pc = "next"
  /\ order = <<>>
  /\ prog = "Pods"
  /\ ProcessExit
  /\ UNCHANGED <<confVars, fs, runNo, obsRun>>

\* main3/main5: nothing new, the run ends without a save
EndFeedsNoSave ==
  /\ pc = "next"
  /\ order = <<>>
  /\ prog \in {"main3", "main5"}
  /\ ~new_links_found
  /\ ProcessExit
  /\ UNCHANGED <<confVars, fs, runNo, obsRun>>

\* main3/main5: save_posted_links opens the file for writing, which empties it
OpenForSave ==
  /\ pc = "next"
  /\ order = <<>>
  /\ prog \in {"main3", "main5"}
  /\ new_links_found
  /\ fs' = [fs EXCEPT ![POSTED_LINKS_FILE] = <<>>]
  /\ pc' = "write"
  /\ UNCHANGED <<confVars, runNo, order, cur, posted_links, new_links_found,
                 groupVars, obsGroup, obsRun>>

(***************************************************************************)
(* Discovery and selection.                                                *)
(***************************************************************************)
\* everything a discovery step leaves alone
DiscoverFrame ==
  UNCHANGED <<confVars, fs, runNo, order, cur, posted_links, new_links_found,
              image, success, log, sent, obsRun>>

\* variant: the list goes to the choice without the test for emptiness
CandidatesUntested(list) == unseen' = list /\ pc' = "select" /\ UNCHANGED queue

\* the candidates are kept for the choice, or there are none and the group ends
Candidates(list) ==
  IF list = <<>>
  THEN NextGroup
  ELSE /\ unseen' = list
       /\ pc' = "select"
       /\ UNCHANGED queue

\* philosophybites_web: aggregate the index pages (a failed scrape gives []),
\* de-duplicate by url
DiscoverPhilosophyBites ==
  /\ pc = "discover"
  /\ prog = "Pods"
  /\ config[cur] = "philosophybites_web"
  /\ \E results \in [1..NumOrigins -> FetchResults] :
       /\ fetched' = results
       /\ Candidates(DedupByUrl(Aggregate(cur, results, posted_links, 1), {}))
  /\ UNCHANGED <<sel, unique_id>>
  /\ DiscoverFrame

\* multi_rss_random: aggregate the feeds; an exception of the parser ends the group
DiscoverMultiRss ==
  /\ pc = "discover"
  /\ prog = "Pods"
  /\ config[cur] = "multi_rss_random"
  /\ \E results \in [1..NumOrigins -> FetchResults] :
       /\ fetched' = results
       /\ IF \E i \in 1..NumOrigins : results[i].raised
          THEN NextGroup /\ UNCHANGED unique_id
          ELSE /\ unique_id' = LastIterated(cur, results, NumOrigins)
               /\ Candidates(Aggregate(cur, results, posted_links, 1))
  /\ UNCHANGED sel
  /\ DiscoverFrame

\* main5: aggregate the feeds of the source, each fetch in its own try
DiscoverSource5 ==
  /\ pc = "discover"
  /\ prog = "main5"
  /\ \E results \in [1..NumOrigins -> FetchResults] :
       /\ fetched' = results
       /\ Candidates(Aggregate(cur, results, posted_links, 1))
  /\ UNCHANGED <<sel, unique_id>>
  /\ DiscoverFrame

\* random.choice over the unseen candidates
SelectRandom ==
  /\ pc = "select"
  /\ \E i \in 1..Len(unseen) :
       /\ sel' = unseen[i]
       /\ unique_id' = IF prog = "Pods" /\ config[cur] = "multi_rss_random"
                       THEN unique_id ELSE unseen[i].link
  /\ unseen' = <<>>
  /\ fetched' = <<>>
  /\ pc' = "extract"
  /\ UNCHANGED <<confVars, fs, runNo, order, cur, posted_links, new_links_found,
                 queue, image, success, log, sent, obsRun>>

\* podscribe_rss, lexfridman, philosophizethis_web: only the newest item of the
\* one origin is looked at
DiscoverLatest ==
  /\ pc = "discover"
  /\ prog = "Pods"
  /\ config[cur] \in {"podscribe_rss", "lexfridman", "philosophizethis_web"}
  /\ \E r \in FetchResults :
       /\ fetched' = <<r>>
       /\ IF r.raised \/ r.entries = <<>>
          THEN NextGroup /\ UNCHANGED <<unique_id, sel>>
          ELSE /\ unique_id' = UniqueId(cur, r.entries[1])
               /\ IF UniqueId(cur, r.entries[1]) \in posted_links
                  THEN NextGroup /\ UNCHANGED sel
                  ELSE /\ sel' = r.entries[1]
                       /\ pc' = "extract"
                       /\ UNCHANGED <<unseen, queue>>
  /\ DiscoverFrame

\* main3: parse the feed, shuffle its first entries
DiscoverSource3 ==
  /\ pc = "discover"
  /\ prog = "main3"
  /\ \E r \in FetchResults :
       /\ fetched' = <<r>>
       /\ IF r.raised \/ r.entries = <<>>
          THEN NextGroup
          ELSE /\ queue' \in Shuffles(SubSeq(r.entries, 1, Min(SampleLimit, Len(r.entries))))
               /\ pc' = "loop"
               /\ UNCHANGED unseen
  /\ UNCHANGED <<sel, unique_id>>
  /\ DiscoverFrame

\* variant: main3 does not skip the entries that are in posted_links
KeepPosted(entries, posted) == entries

\* main3: the entries of the sample from the first one not in posted_links
RECURSIVE DropPosted(_, _)
DropPosted(entries, posted) ==
  IF entries # <<>> /\ Head(entries).link \in posted
  THEN DropPosted(Tail(entries), posted)
  ELSE entries

\* main3: the for loop moves to the next entry that is not in posted_links, or
\* runs out (the for's else)
NextEntry ==
  /\ pc = "loop"
  /\ LET rest == DropPosted(queue, posted_links)
     IN IF rest = <<>>
        THEN NextGroup /\ UNCHANGED <<sel, unique_id, fetched>>
        ELSE /\ sel' = Head(rest)
             /\ unique_id' = Head(rest).link
             /\ queue' = Tail(rest)
             /\ pc' = "extract"
             /\ fetched' = <<>>
             /\ UNCHANGED unseen
  /\ UNCHANGED <<confVars, fs, runNo, order, cur, posted_links, new_links_found,
                 image, success, log, sent, obsRun>>

(***************************************************************************)
(* Extraction, summarisation and formatting of the selected item.          *)
(***************************************************************************)
\* the identifier of the selected entry, as the group's branch computes it
SelId == UniqueId(cur, sel)

\* the length under which the group's get_ai_* function returns None unasked
MinLen(g) ==
  IF prog # "Pods" THEN MinNewsLen
  ELSE IF config[g] \in {"multi_rss_random", "podscribe_rss"} THEN MinDescriptionLen
  ELSE MinTranscriptLen

\* lengths of an extracted text: none, just too short, just long enough
TextLens(g) == {0, MinLen(g) - 1, MinLen(g)}

\* variant: the branch does not check what the extraction gave
UsableAlways(len, page) == TRUE

\* the branch's check of what the extraction gave, before any get_ai_* call
Usable(len, page) ==
  IF prog # "Pods" THEN len > 0
  ELSE CASE config[cur] \in {"philosophybites_web", "philosophizethis_web"} -> len > 0
         [] config[cur] = "multi_rss_random" -> len > 0 /\ sel.encl # None
         [] config[cur] = "podscribe_rss" -> TRUE
         [] config[cur] = "lexfridman" -> page = "ok" /\ len > 0

\* get_ai_*: `if not text or len(text) < MIN: return None` comes before the request
Requested(len) == len >= MinLen(cur)

\* variant: the branch does not test ai_data
FalsyNever(r) == FALSE

\* `not ai_data`
Falsy(r) == r = "none"

\* the formatters call ai_data.get: only a mapping survives
FormatRaises(r) == r = "list"

\* podscribe_rss formats and sends only `if ai_data and mp3_url`
HasMp3 == ~(prog = "Pods" /\ config[cur] = "podscribe_rss") \/ sel.encl # None

\* variant: the item that gave nothing is tried again
RetryItem == pc' = "extract" /\ UNCHANGED <<unseen, queue>>

\* main3 goes on with the next entry of its sample where the others give up
\* the group
GiveUpItem ==
  IF prog = "main3"
  THEN pc' = "loop" /\ UNCHANGED <<unseen, queue>>
  ELSE NextGroup

KeepRun == UNCHANGED <<order, cur, posted_links, new_links_found, sel, unique_id, success>>

\* main5 has no handler around the formatter: its exception ends the run
Aborts(r) == prog = "main5" /\ ~Falsy(r) /\ FormatRaises(r)

\* what follows the get_ai_* call's return value r
AfterAnalysis(r) ==
  /\ IF Falsy(r) THEN GiveUpItem
     ELSE IF ~HasMp3 \/ FormatRaises(r) THEN NextGroup
     ELSE pc' = "send" /\ UNCHANGED <<unseen, queue>>
  /\ KeepRun
  /\ UNCHANGED <<fetched, sent>>

\* one item of the log
Tried(len, called, asked, r) ==
  [id |-> SelId, text |-> len, calls |-> IF called THEN 1 ELSE 0,
   requests |-> IF asked THEN 1 ELSE 0, result |-> r, pub |-> FALSE]

\* the selected item goes through the extractor, the get_ai_* function and the
\* formatter
Prepare ==
  /\ pc = "extract"
  /\ \E len \in TextLens(cur), page \in Pages, img \in BOOLEAN, r \in AiResults :
       LET usable == Usable(len, page)
           asked == usable /\ Requested(len)
       IN /\ (prog = "Pods" /\ config[cur] = "lexfridman") \/ page = "ok"
          /\ page = "nopage" => len = 0
          /\ img => (prog # "Pods" /\ usable /\ ~Falsy(r) /\ ~FormatRaises(r))
          /\ ~asked => r = "none"
          /\ IF usable /\ Aborts(r)
             THEN ~img /\ ProcessExit
             ELSE /\ image' = img
                  /\ log' = Append(log, Tried(len, usable, asked, r))
                  /\ IF usable
                     THEN AfterAnalysis(r)
                     ELSE GiveUpItem /\ KeepRun /\ UNCHANGED <<fetched, sent>>
  /\ UNCHANGED <<confVars, fs, runNo, obsRun>>

(***************************************************************************)
(* Publish.                                                                *)
(***************************************************************************)
\* send_podcast_to_telegram (Lex Fridman) and send_to_telegram with an image
\* send two messages; every other publish is one message
TwoPart ==
  IF prog = "Pods" THEN config[cur] = "lexfridman" ELSE image

FirstPart ==
  IF prog = "Pods" THEN (IF config[cur] = "lexfridman" THEN "video" ELSE "text")
  ELSE IF image THEN "photo" ELSE "text"

SecondPart == IF prog = "Pods" THEN "analysis" ELSE "text"

\* message ids the Bot API may answer a sendMessage with
MessageIds == {7, 8}
NoMessageId == 0

\* only send_podcast_to_telegram reads result.message_id of the first response
ReturnedIds == IF prog = "Pods" /\ TwoPart THEN MessageIds ELSE {NoMessageId}

\* variant: the analysis is sent as a message of its own
ReplyToNothing == NoMessageId

\* reply_to_message_id of the second message: video_message_id in
\* send_podcast_to_telegram, absent in send_to_telegram
ReplyTo == IF prog = "Pods" THEN sent[1].message_id ELSE NoMessageId

\* one delivered message
Message(part, id, reply) == [part |-> part, message_id |-> id, reply_to |-> reply]

\* variant: the commit takes unique_id as the aggregation loop left it
LoopUniqueId == unique_id

\* the identifier Pods commits: multi_rss_random recomputes it from the selection
CommitId ==
  IF prog = "Pods" /\ config[cur] = "multi_rss_random" THEN EnclosureId(sel) ELSE unique_id

\* variant: main3 goes on with its sample after a publish
ContinueLoop == pc' = IF prog = "main3" THEN "loop" ELSE "next"

\* main3 leaves its loop over the sample (`break`); main5 has no loop to leave
BreakLoop == pc' = "next"

\* variant: the add and the rewrite follow whatever the publisher returned
AddAlways(ok) == TRUE

\* whether the orchestrator adds the identifier once the publisher has returned
\* ok: Pods tests `if success`; main3/main5's send_to_telegram returns nothing
\* and the add follows the call unconditionally
AddToHistory(ok) ==
  IF prog = "Pods" THEN ok ELSE TRUE

AfterPublish(ok) ==
  /\ confirmed' = IF ok THEN [confirmed EXCEPT ![HistoryFile(cur)] = @ \cup {SelId}]
                  ELSE confirmed
  /\ IF prog = "Pods"
     THEN /\ success' = ok
          /\ unique_id' = CommitId
          /\ pc' = IF AddToHistory(ok) THEN "commit" ELSE "next"
          /\ UNCHANGED <<posted_links, new_links_found>>
     ELSE /\ posted_links' = IF AddToHistory(ok) THEN posted_links \cup {unique_id}
                             ELSE posted_links
          /\ new_links_found' = (AddToHistory(ok) \/ new_links_found)
          /\ BreakLoop
          /\ UNCHANGED <<success, unique_id>>

PublishFrame ==
  UNCHANGED <<confVars, fs, runNo, order, cur, unseen, queue, sel, image,
              fetched, histAtLoad, fsAtStart, settled, visited, postedAtBegin>>

Attempted == [log EXCEPT ![Len(log)].pub = TRUE]

\* the credentials are not set: the publisher returns at once
SendWithoutCredentials ==
  /\ pc = "send"
  /\ ~TelegramReady
  /\ log' = Attempted
  /\ AfterPublish(FALSE)
  /\ UNCHANGED <<sent, delivered>>
  /\ PublishFrame

\* the first (or only) message is refused or the request fails
SendFirstFails ==
  /\ pc = "send"
  /\ TelegramReady
  /\ log' = Attempted
  /\ AfterPublish(FALSE)
  /\ UNCHANGED <<sent, delivered>>
  /\ PublishFrame

\* the first (or only) message is delivered
SendFirst ==
  /\ pc = "send"
  /\ TelegramReady
  /\ log' = Attempted
  /\ \E m \in ReturnedIds : sent' = Append(sent, Message(FirstPart, m, NoMessageId))
  /\ delivered' = [delivered EXCEPT ![HistoryFile(cur)][SelId] = @ + 1]
  /\ IF TwoPart
     THEN /\ pc' = "send2"
          /\ UNCHANGED <<posted_links, new_links_found, success, unique_id, confirmed>>
     ELSE AfterPublish(TRUE)
  /\ PublishFrame

\* the second message of a two-part publish is delivered
SendSecond ==
  /\ pc = "send2"
  /\ sent' = Append(sent, Message(SecondPart, NoMessageId, ReplyTo))
  /\ AfterPublish(TRUE)
  /\ UNCHANGED <<log, delivered>>
  /\ PublishFrame

\* the second message of a two-part publish fails
SendSecondFails ==
  /\ pc = "send2"
  /\ AfterPublish(FALSE)
  /\ UNCHANGED <<log, sent, delivered>>
  /\ PublishFrame

(***************************************************************************)
(* The history write.                                                      *)
(***************************************************************************)
\* Pods: posted_links.add(unique_id); open(history_file, 'w') empties the file
CommitPodcast ==
  /\ pc = "commit"
  /\ posted_links' = posted_links \cup {unique_id}
  /\ fs' = [fs EXCEPT ![HistoryFile(cur)] = <<>>]
  /\ pc' = "write"
  /\ UNCHANGED <<confVars, runNo, order, cur, new_links_found, groupVars, obsGroup, obsRun>>

\* the file being written: the group's in Pods, the shared one otherwise
OpenFile == IF prog = "Pods" THEN cur ELSE POSTED_LINKS_FILE

\* the sorted lines are written and the file is closed
WriteHistory ==
  /\ pc = "write"
  /\ fs' = [fs EXCEPT ![OpenFile] = FileContent(posted_links)]
  /\ IF prog = "Pods"
     THEN /\ pc' = "next"
          /\ UNCHANGED <<order, cur, posted_links, new_links_found, groupVars, obsGroup>>
     ELSE ProcessExit
  /\ UNCHANGED <<confVars, runNo, obsRun>>

(***************************************************************************)
(* The process is killed (runner time-out, power loss) anywhere in a run.  *)
(* Of a file open for writing, any prefix of the content may be on disk.   *)
(***************************************************************************)
Crash ==
  /\ pc \notin {"idle", "killed"}
  /\ IF pc = "write"
     THEN \E k \in 0..Len(FileContent(posted_links)) :
            fs' = [fs EXCEPT ![OpenFile] = SubSeq(FileContent(posted_links), 1, k)]
     ELSE UNCHANGED fs
  /\ pc' = "killed"
  /\ Forget
  /\ UNCHANGED <<confVars, runNo, obsRun>>

(***************************************************************************)
(* Specification.                                                          *)
(***************************************************************************)
Next ==
  \/ FatalMissingKey
  \/ StartPods
  \/ StartFeeds
  \/ BeginPodcast
  \/ LoadRaises
  \/ BeginSource
  \/ EndPods
  \/ EndFeedsNoSave
  \/ OpenForSave
  \/ DiscoverPhilosophyBites
  \/ DiscoverMultiRss
  \/ DiscoverSource5
  \/ SelectRandom
  \/ DiscoverLatest
  \/ DiscoverSource3
  \/ NextEntry
  \/ Prepare
  \/ SendWithoutCredentials
  \/ SendFirstFails
  \/ SendFirst
  \/ SendSecond
  \/ SendSecondFails
  \/ CommitPodcast
  \/ WriteHistory
  \/ Crash

Spec == Init /\ [][Next]_vars

TypeOK ==
  /\ pc \in {"idle", "killed", "next", "discover", "select", "loop", "extract",
             "send", "send2", "commit", "write"}
  /\ posted_links \subseteq Ids \cup {<<"c">>}
  /\ \A f \in Files : ReadHistory(fs[f]) \subseteq Ids \cup {<<"c">>}

(***************************************************************************)
(* Properties.  The observations they read: log holds one record per item  *)
(* the current group has tried, confirmed the identifiers whose publish    *)
(* returned with every message delivered, settled the same as of the start *)
(* of the current group, delivered the number of publishes per identifier  *)
(* that put a post in the channel.                                         *)
(***************************************************************************)
\* the identifiers of a file that it did not hold when the run started
NewIds(f) == ReadHistory(fs[f]) \ ReadHistory(fsAtStart[f])

\* the groups that keep their history in file f
GroupsOf(f) == {g \in Groups : HistoryFile(g) = f}

\* the last record of the log is a publish attempt that did not succeed
PublishFailed ==
  /\ pc = "next"
  /\ log # <<>>
  /\ log[Len(log)].pub
  /\ log[Len(log)].id \notin confirmed[HistoryFile(cur)]

\* C1 (as the specification states it): when the publish step of the selected
\* item fails, the item's identifier is in neither the in-memory history set
\* nor the persisted partition once the group has been processed.
C1_FailedPublishLeavesHistory ==
  PublishFailed =>
    /\ log[Len(log)].id \notin posted_links
    /\ log[Len(log)].id \notin ReadHistory(fs[HistoryFile(cur)])

\* C2: an identifier that is in the group's history partition when the
\* partition is loaded is never the identifier of the item selected, nor of
\* any item the group has tried, in that run.
C2_LoadedIdNeverSelected ==
  /\ sel # NoEntry => SelId \notin histAtLoad
  /\ \A i \in 1..Len(log) : log[i].id \notin histAtLoad

\* C2, its case: main3 has selected an entry while an entry that is in the
\* loaded history is still in the sample of this run.
C2_Witness ==
  /\ prog = "main3"
  /\ pc = "extract"
  /\ sel # NoEntry
  /\ \E i \in 1..Len(queue) : queue[i].link \in histAtLoad

\* C3 (as the specification states it): every identifier whose publish was
\* confirmed before the current group began is in the persisted partition
\* while the current group is processed, and after a crash or abort in it.
C3_CommittedBeforeNextGroup ==
  \A f \in Files : settled[f] \subseteq ReadHistory(fs[f])

\* C4 (as the specification states it): no identifier has a post delivered
\* to the channel more than once, over all runs.
C4_DeliveredAtMostOnce ==
  \A f \in Files : \A i \in Ids : delivered[f][i] <= 1

\* C4, amended: a post is delivered only for an identifier that the group's
\* persisted history partition does not hold at the time of the delivery.
C4_DeliveredOnlyIfNotPersisted ==
  [][\A f \in Files : \A i \in Ids :
       delivered'[f][i] > delivered[f][i] => i \notin ReadHistory(fs[f])]_vars

\* C4, its case: an identifier has had a post delivered a second time.
C4_Witness ==
  \E f \in Files : \E i \in Ids : delivered[f][i] = 2

\* C5 (as the specification states it): at the end of a run every history
\* partition holds at most one identifier it did not hold at the start.
C5_AtMostOneNewId ==
  pc = "idle" => \A f \in Files : Cardinality(NewIds(f)) <= 1

\* C5, amended: the in-memory set gains at most one identifier per group
\* processed, and at the end of a run that was not interrupted a partition
\* holds at most as many new identifiers as there are groups that use it.
C5_OneNewIdPerGroup ==
  /\ Cardinality(posted_links \ histAtLoad) <=
       (IF prog = "Pods" THEN 1 ELSE NumGroups - Len(order))
  /\ pc = "idle" => \A f \in Files : Cardinality(NewIds(f)) <= Cardinality(GroupsOf(f))

\* C5, its case: a run has ended with two new identifiers in the partition
\* that the sources of main3/main5 share.
C5_Witness ==
  /\ pc = "idle"
  /\ prog # "Pods"
  /\ Cardinality(NewIds(POSTED_LINKS_FILE)) = 2

\* the records of the log that are publish attempts
PublishAttempts == {i \in 1..Len(log) : log[i].pub}

\* C6 (as the specification states it): extraction, summarisation and
\* publish are attempted for at most one candidate per group and run.
C6_OneCandidateTried == Len(log) <= 1

\* C6, amended: a group makes at most one publish attempt per run, and it is
\* for the last item tried; outside main3 at most one item is tried; a
\* random.choice group with a non-empty unseen list goes on with exactly one
\* member of that list.
C6_OnePublishAttempt ==
  /\ [](/\ Cardinality(PublishAttempts) <= 1
        /\ PublishAttempts \subseteq {Len(log)}
        /\ prog # "main3" => Len(log) <= 1)
  /\ [][pc = "select" /\ pc' # "killed" =>
          /\ unseen # <<>>
          /\ RandomChoice(cur)
          /\ pc' = "extract"
          /\ \E i \in 1..Len(unseen) : sel' = unseen[i]]_vars

\* C6, its case: main3 has published the second entry it tried.
C6_Witness ==
  /\ prog = "main3"
  /\ pc = "next"
  /\ Len(log) = 2
  /\ log[2].pub

\* one origin has returned the three items of the catalogue, every other
\* origin none, and the history loaded holds exactly one of their identifiers
OneOriginAllThree ==
  /\ \E i \in 1..Len(fetched) :
       /\ fetched[i].entries = Catalog
       /\ \A j \in 1..Len(fetched) :
            j # i => (fetched[j].entries = <<>> /\ ~fetched[j].raised)
  /\ histAtLoad = posted_links
  /\ \E x \in Ids : posted_links = {x}

\* C7 (as the specification states it): in the scenario, for any group, one
\* of the two unseen items is selected.
C7_ScenarioSelectsOne ==
  OneOriginAllThree => pc \in {"select", "loop", "extract"}

\* C7, amended to the groups that draw with random.choice: in the scenario
\* the unseen list holds exactly the two items that are not in the history;
\* the item selected is one of them; in Pods the partition holds exactly the
\* loaded history and the selected identifier once a successful publish has
\* been committed; in main5 the identifier is in the in-memory set after the
\* publish, and a file the run has rewritten holds the loaded history and
\* every identifier published.
C7_RandomChoiceScenario ==
  /\ (OneOriginAllThree /\ RandomChoice(cur)) =>
       /\ pc = "select"
       /\ Len(unseen) = 2
       /\ IdsOf(cur, unseen) = Ids \ posted_links
  /\ (pc = "extract" /\ RandomChoice(cur) /\ histAtLoad = posted_links) =>
       SelId \in Ids \ posted_links
  /\ (prog = "Pods" /\ pc = "next" /\ success /\ RandomChoice(cur)) =>
       ReadHistory(fs[cur]) = histAtLoad \cup {SelId}
  /\ (prog = "main5" /\ pc = "next" /\ PublishAttempts # {}) =>
       histAtLoad \cup {SelId} \subseteq posted_links
  /\ (prog = "main5" /\ pc = "idle" /\ fs # fsAtStart) =>
       histAtLoad \cup confirmed[POSTED_LINKS_FILE] \subseteq ReadHistory(fs[POSTED_LINKS_FILE])

\* C7, its case: a random.choice group is about to choose in the scenario.
C7_Witness ==
  /\ pc = "select"
  /\ RandomChoice(cur)
  /\ OneOriginAllThree
  /\ histAtLoad = {Ida}

\* C8 (as the specification states it): no identifier occurs twice in the
\* list of unseen candidates from which the selection is drawn.
C8_UnseenHasNoDuplicates ==
  pc = "select" =>
    \A i, j \in 1..Len(unseen) :
      i # j => UniqueId(cur, unseen[i]) # UniqueId(cur, unseen[j])

\* the extraction gave no text for the i-th item tried
NoText(i) == log[i].text = 0

\* the get_ai_* function was called for the i-th item tried and returned nothing
NoResult(i) == log[i].calls = 1 /\ log[i].result = "none"

\* the i-th item tried has left no trace in the history
Untouched(i) ==
  /\ ~log[i].pub
  /\ log[i].id \notin posted_links
  /\ log[i].id \notin ReadHistory(fs[HistoryFile(cur)])

\* the group ended with the i-th item tried
GroupSkippedAt(i) == Len(log) = i /\ pc \in {"next", "write"}

\* C9 (as the specification states it): when the extraction gives no text,
\* no other candidate of the group is tried.
C9_NoTextSkipsGroup ==
  \A i \in 1..Len(log) : NoText(i) => Len(log) = i

\* C9, amended: when the extraction gives no text, no request goes to the
\* provider for the item, no publish is attempted for it and the history is
\* unchanged; only podscribe_rss calls its get_ai_* function (which returns
\* without a request); outside main3 the group is skipped, main3 goes on with
\* the next entry of its sample.
C9_NoTextNoRequestNoPublish ==
  \A i \in 1..Len(log) :
    NoText(i) =>
      /\ log[i].requests = 0
      /\ Untouched(i)
      /\ (prog = "Pods" /\ config[cur] = "podscribe_rss") \/ log[i].calls = 0
      /\ prog # "main3" => GroupSkippedAt(i)

\* C9, its case: main3 has published the entry it tried after one that gave
\* no text.
C9_Witness ==
  /\ prog = "main3"
  /\ Len(log) = 2
  /\ NoText(1)
  /\ log[2].pub

RunEnded == pc = "idle" /\ runNo > 0 /\ CredentialsOK

\* C11: whatever fails in one group (history load, discovery, extraction,
\* summarisation, formatting, publish, commit), the groups after it are still
\* processed: a run that ends has entered the loop body of every group.
C11_FailureNeverStopsOtherGroups == RunEnded => visited = Groups

\* the identifiers the origins of the current group surfaced that its history
\* did not hold when the group began
SurfacedUnseen ==
  UNION {IdsOf(cur, fetched[i].entries) : i \in 1..Len(fetched)} \ postedAtBegin

\* discovery has just ended for a group of several origins, one of which raised
OneOriginFailed ==
  /\ fetched # <<>>
  /\ RandomChoice(cur)
  /\ \E i \in 1..Len(fetched) : fetched[i].raised

\* C12: when one origin of a group is unreachable or does not parse, what the
\* other origins surfaced is still collected and stands for selection.
C12_BadOriginLeavesOthers ==
  (OneOriginFailed /\ SurfacedUnseen # {}) =>
     /\ pc = "select"
     /\ SurfacedUnseen \subseteq IdsOf(cur, unseen)

\* C13: with a required credential missing (bot token, channel id, or the key of
\* the selected provider) no group is processed: nothing is fetched, no item
\* reaches the extractor, the summariser or the publisher, and no history file
\* is written.
C13_MissingCredentialAbortsRun ==
  ~(TelegramReady /\ CredentialsOK) =>
     /\ visited = {}
     /\ fetched = <<>>
     /\ log = <<>>
     /\ \A f \in Files : fs[f] = Missing

(***************************************************************************)
(* The history file by itself: a set of identifier strings is saved and    *)
(* loaded again.  The strings are drawn from all strings up to a length    *)
(* over a letter, the space and the line break, so that identifiers with   *)
(* whitespace at their ends or a line break inside are among them.         *)
(***************************************************************************)
MaxIdLen == 3
MaxSetSize == 2

IdChars == {"a", SP, NL}
IdStrings == UNION {[1..n -> IdChars] : n \in 0..MaxIdLen}
\* the sets of at most n identifier strings
RECURSIVE SetsUpTo(_)
SetsUpTo(n) ==
  IF n = 0 THEN {{}}
  ELSE LET smaller == SetsUpTo(n - 1)
       IN smaller \cup {S \cup {x} : S \in smaller, x \in IdStrings}

IdSets == SetsUpTo(MaxSetSize)

\* a file of an earlier commit, of an identifier longer than any of IdStrings
StaleFile == FileContent({[i \in 1..MaxIdLen + 1 |-> "a"]})

\* everything but the file, the set in memory and the set the load returned
restVars ==
  <<confVars, runNo, order, cur, new_links_found, groupVars, obsGroup,
    fsAtStart, delivered, confirmed, settled, visited, postedAtBegin>>

\* a script with a set of identifiers in memory, before its history file exists
\* or with the file empty
RoundTripInit ==
  /\ prog \in Progs
  /\ config \in Configs(prog)
  /\ env = [token |-> TRUE, channel |-> TRUE, gemini |-> TRUE]
  /\ cur = 1
  /\ fs \in {[f \in Files |-> c] : c \in {Missing, <<>>, StaleFile}}
  /\ posted_links \in IdSets
  /\ pc = "start"
  /\ runNo = 1
  /\ order = <<>>
  /\ new_links_found = FALSE
  /\ unseen = <<>>
  /\ queue = <<>>
  /\ sel = NoEntry
  /\ unique_id = None
  /\ image = FALSE
  /\ success = FALSE
  /\ fetched = <<>>
  /\ histAtLoad = {}
  /\ fsAtStart = fs
  /\ log = <<>>
  /\ sent = <<>>
  /\ delivered = [f \in Files |-> [i \in Ids |-> 0]]
  /\ confirmed = [f \in Files |-> {}]
  /\ settled = [f \in Files |-> {}]
  /\ visited = {}
  /\ postedAtBegin = {}
  /\ body = <<>>
  /\ texts = <<>>
  /\ procs = <<>>
  /\ exclusive = TRUE

\* load_posted_links() / the load at the head of a Pods group, on the file as
\* it was found
LoadFound ==
  /\ pc = "start"
  /\ histAtLoad' = ReadHistory(fs[OpenFile])
  /\ pc' = "loaded"
  /\ UNCHANGED <<fs, posted_links, restVars>>

\* save_posted_links(links) / the write of a Pods commit, from open to close
SaveLinks ==
  /\ pc = "loaded"
  /\ fs' = [fs EXCEPT ![OpenFile] = FileContent(posted_links)]
  /\ pc' = "saved"
  /\ UNCHANGED <<histAtLoad, posted_links, restVars>>

\* the load of the next run
LoadSaved ==
  /\ pc = "saved"
  /\ histAtLoad' = ReadHistory(fs[OpenFile])
  /\ pc' = "reloaded"
  /\ UNCHANGED <<fs, posted_links, restVars>>

RoundTripNext ==
  \/ LoadFound
  \/ SaveLinks
  \/ LoadSaved

RoundTrip == RoundTripInit /\ [][RoundTripNext]_vars

\* an identifier that a line of the file can hold as it is: no line break in it,
\* no whitespace at its ends
Storable(s) ==
  /\ Strip(s) = s
  /\ \A i \in 1..Len(s) : s[i] # NL

\* C14: saving a set S of identifier strings and loading the file gives
\* exactly S, for every S; loading a missing or empty file gives the empty set.
C14_RoundTripOfAnySet ==
  /\ (pc = "loaded" /\ fs[OpenFile] \in {Missing, <<>>}) => histAtLoad = {}
  /\ pc = "reloaded" => histAtLoad = posted_links

\* what the file does give back: every set whose identifiers hold no line break
\* and no whitespace at their ends
StorableSetRoundTrips ==
  (pc = "reloaded" /\ \A s \in posted_links : Storable(s)) => histAtLoad = posted_links

\* C15: for every run and every history file, the identifiers the file holds
\* after the run include all those it held before the run.
C15_HistoryNeverShrinks ==
  pc \in {"idle", "killed"} =>
     \A f \in Files : ReadHistory(fsAtStart[f]) \subseteq ReadHistory(fs[f])

\* the file is a whole history file: the sorted lines of the set it holds
WholeFile(f) == fs[f] = FileContent(ReadHistory(fs[f]))

\* C16: a commit is atomic: at every moment, an interruption included, a history
\* file is either what it was before the commit or the whole new file, which
\* holds the previous identifiers and the new one; never a file emptied of
\* them or a partial one.
C16_CommitIsAtomic ==
  \A f \in Files :
     \/ fs[f] = fsAtStart[f]
     \/ /\ WholeFile(f)
        /\ ReadHistory(fsAtStart[f]) \subseteq ReadHistory(fs[f])

\* discovery is over for the current group and no item has been tried yet
DiscoveryEnded ==
  /\ fetched # <<>>
  /\ log = <<>>
  /\ pc \in {"select", "loop", "extract", "next"}

\* the identifiers among which the group's item is chosen: the list handed to
\* random.choice, main3's shuffled sample, or the one newest item
CandidateIds ==
  CASE pc = "select" -> IdsOf(cur, unseen)
    [] pc = "loop" -> IdsOf(cur, queue)
    [] pc = "extract" -> {SelId}
    [] OTHER -> {}

\* the identifiers of the entries main3 samples from: feed.entries[:20]
SampledIds == IdsOf(cur, SubSeq(fetched[1].entries, 1, Min(SampleLimit, Len(fetched[1].entries))))

\* a feed of a multi_rss_random group raised: the group has ended
MultiRssFailed ==
  /\ OneOriginFailed
  /\ prog = "Pods"
  /\ config[cur] = "multi_rss_random"

ZeroUnseen ==
  /\ fetched # <<>>
  /\ IF prog = "main3" THEN SampledIds \subseteq postedAtBegin
     ELSE IF RandomChoice(cur) THEN SurfacedUnseen = {}
     ELSE \/ fetched[1].entries = <<>>
          \/ UniqueId(cur, fetched[1].entries[1]) \in postedAtBegin

\* C18: a group with zero unseen candidates is skipped with no state change: no
\* item is selected, no extractor, summariser or publisher call is made for it,
\* its in-memory history stays as the group found it and its history file is
\* not written for it (the one file of main3/main5 is written only by the save
\* at the end of the run, with what the other groups added).
C18_ZeroUnseenChangesNothing ==
  ZeroUnseen =>
     /\ pc \in {"loop", "next", "write"}
     /\ sel = NoEntry
     /\ log = <<>>
     /\ sent = <<>>
     /\ posted_links = postedAtBegin
     /\ confirmed = settled
     /\ IF prog = "Pods"
        THEN pc = "next" /\ fs[HistoryFile(cur)] = fsAtStart[HistoryFile(cur)]
        ELSE \/ fs[POSTED_LINKS_FILE] = fsAtStart[POSTED_LINKS_FILE]
             \/ pc = "write" /\ order = <<>>

C18_Witness ==
  /\ ZeroUnseen
  /\ RandomChoice(cur)
  /\ pc = "next"
  /\ \E i \in 1..Len(fetched) : fetched[i].entries # <<>>

\* send_to_telegram was called with an image for the item of the current source
PhotoPublish ==
  /\ prog # "Pods"
  /\ image
  /\ log # <<>>
  /\ log[Len(log)].pub

\* the photo is the first message and the text follows a delivered photo only
PhotoThenText ==
  /\ Len(sent) <= 2
  /\ Len(sent) >= 1 => sent[1].part = "photo"
  /\ Len(sent) = 2 => sent[2].part = "text"

\* C19: with an image, send_to_telegram sends the photo with its caption first
\* and the full text only after the photo was delivered, and the orchestrator
\* takes the publish as successful (adds the identifier to the history) only
\* if both messages were delivered.
C19_PhotoThenTextThenCommit ==
  PhotoPublish =>
     /\ PhotoThenText
     /\ (pc # "send2" /\ SelId \in posted_links) => Len(sent) = 2

\* send_podcast_to_telegram was called for the episode of the current group
VideoPublish ==
  /\ log # <<>>
  /\ log[Len(log)].pub
  /\ prog = "Pods"
  /\ config[cur] = "lexfridman"

\* C20: send_podcast_to_telegram sends the video message first, sends the
\* analysis only after the video message was delivered and as a reply to the
\* message id that first send returned, and returns True exactly if both
\* messages were delivered.
C20_VideoThenReplyThenSuccess ==
  VideoPublish =>
     /\ Len(sent) <= 2
     /\ Len(sent) >= 1 =>
          /\ sent[1].part = "video"
          /\ sent[1].message_id \in MessageIds
          /\ sent[1].reply_to = NoMessageId
     /\ Len(sent) = 2 =>
          /\ sent[2].part = "analysis"
          /\ sent[2].reply_to = sent[1].message_id
     /\ pc # "send2" => (success <=> Len(sent) = 2)

C20_Witness ==
  /\ VideoPublish
  /\ success
  /\ Len(sent) = 2
  /\ sent[2].reply_to = 8

\* the identifiers the current group has added to the in-memory history
AddedByGroup == posted_links \ postedAtBegin

Unavailable(i) == log[i].requests = 1 /\ log[i].result \in {"none", "list"}

\* C22: when the summariser's response does not parse, or parses to JSON whose
\* top level is no mapping, the group is skipped with no publish and no history
\* change, and the run goes on with the remaining groups.
C22_NonMappingSkipsGroup ==
  /\ \A i \in 1..Len(log) : Unavailable(i) => (Untouched(i) /\ GroupSkippedAt(i))
  /\ (RunEnded /\ prog # "Pods") => visited = Groups

(***************************************************************************)
(* Termination.  A call that carries a timeout returns or raises within    *)
(* its bound, so the step that makes it is eventually taken; a call        *)
(* without one can wait for its endpoint for ever.                         *)
(***************************************************************************)
\* a call made without a timeout argument
NoTimeout == 0

\* the timeout of the requests.get of the index scrapers, in seconds
ScrapeTimeout == 20

\* the timeout of the group's origin fetch: the index pages of the two web
\* groups are fetched with requests.get(..., timeout=20), every feed with
\* feedparser.parse(url), which takes no timeout
FetchTimeout(g) ==
  IF prog = "Pods" /\ config[g] \in {"philosophybites_web", "philosophizethis_web"}
  THEN ScrapeTimeout ELSE NoTimeout

\* a run is under way
InRun == pc \notin {"idle", "killed"}

\* the discovery step of the current group
Discover ==
  \/ DiscoverPhilosophyBites
  \/ DiscoverMultiRss
  \/ DiscoverSource5
  \/ DiscoverLatest
  \/ DiscoverSource3

\* the steps of a run after discovery and between the groups: their calls
\* (scrapes, the Gemini request, the Telegram requests) all carry a timeout
BoundedStep ==
  \/ BeginPodcast
  \/ BeginSource
  \/ EndPods
  \/ EndFeedsNoSave
  \/ OpenForSave
  \/ SelectRandom
  \/ NextEntry
  \/ Prepare
  \/ SendWithoutCredentials
  \/ SendFirstFails
  \/ SendFirst
  \/ SendSecond
  \/ SendSecondFails
  \/ CommitPodcast
  \/ WriteHistory

\* the scripts with every call that has a timeout returning
Timeouts ==
  /\ Spec
  /\ WF_vars(BoundedStep)
  /\ WF_vars(Discover /\ FetchTimeout(cur) # NoTimeout)

\* C23: every outbound call of a run carries a bounded timeout, so that no
\* endpoint can stall the run: a run that has started always comes to an end.
C23_RunAlwaysTerminates == InRun ~> ~InRun

(***************************************************************************)
(* The texts of a publish by themselves: a rendered body of some length is *)
(* handed to the publisher of the group, which builds the payloads of its  *)
(* one or two messages.  A body is the sequence of its character           *)
(* positions, so that a text can be compared with it place by place.       *)
(***************************************************************************)
\* the slice bound of the text payloads
MaxMessageLen == 4096

BodyLens == {0, 1, MaxMessageLen - 1, MaxMessageLen, MaxMessageLen + 1, 2 * MaxMessageLen}
Bodies == {[i \in 1..n |-> i] : n \in BodyLens}

\* the caption of the photo or the line with the video's address: not the body
Caption == <<0>>

\* variant: the text goes into the payload as it is
Untruncated(s) == s

\* s[:4096]
Truncate(s) == SubSeq(s, 1, Min(Len(s), MaxMessageLen))

\* the 'text' (or caption) of the first message of the publisher
FirstText == IF TwoPart THEN Caption ELSE Truncate(body)

\* the 'text' of the second message: send_podcast_to_telegram slices the
\* analysis, send_to_telegram sends the message after the photo as it is
SecondText == IF prog = "Pods" THEN Truncate(body) ELSE body

\* everything the publisher's payloads do not depend on
payloadRest ==
  <<prog, config, env, body, fs, runNo, order, cur, posted_links, new_links_found,
    groupVars, obsGroup, obsRun, procs, exclusive>>

\* a group's publisher is called with a rendered body
PayloadInit ==
  /\ prog \in Progs
  /\ config \in Configs(prog)
  /\ env = [token |-> TRUE, channel |-> TRUE, gemini |-> TRUE]
  /\ cur \in Groups
  /\ image \in (IF prog = "Pods" THEN {FALSE} ELSE BOOLEAN)
  /\ body \in Bodies
  /\ texts = <<>>
  /\ procs = <<>>
  /\ exclusive = TRUE
  /\ pc = "send"
  /\ fs = [f \in Files |-> Missing]
  /\ runNo = 1
  /\ order = <<>>
  /\ posted_links = {}
  /\ new_links_found = FALSE
  /\ unseen = <<>>
  /\ queue = <<>>
  /\ sel = NoEntry
  /\ unique_id = None
  /\ success = FALSE
  /\ fetched = <<>>
  /\ histAtLoad = {}
  /\ fsAtStart = fs
  /\ log = <<>>
  /\ sent = <<>>
  /\ delivered = [f \in Files |-> [i \in Ids |-> 0]]
  /\ confirmed = [f \in Files |-> {}]
  /\ settled = [f \in Files |-> {}]
  /\ visited = {}
  /\ postedAtBegin = {}

\* the payload of the first (or only) message is built and posted
PostFirst ==
  /\ pc = "send"
  /\ texts' = Append(texts, FirstText)
  /\ pc' = IF TwoPart THEN "send2" ELSE "sent"
  /\ UNCHANGED payloadRest

\* the payload of the second message is built and posted
PostSecond ==
  /\ pc = "send2"
  /\ texts' = Append(texts, SecondText)
  /\ pc' = "sent"
  /\ UNCHANGED payloadRest

PayloadNext ==
  \/ PostFirst
  \/ PostSecond

Payloads == PayloadInit /\ [][PayloadNext]_vars

\* t is the first min(len(s), 4096) characters of s
IsSlice(t, s) ==
  /\ Len(t) = Min(Len(s), MaxMessageLen)
  /\ \A i \in 1..Len(t) : t[i] = s[i]

\* the body goes out in a message of its own after a photo
WithMedia == prog # "Pods" /\ image

\* C24: a body sent without accompanying media goes out as its first
\* min(len, 4096) characters; a body sent in a message of its own alongside
\* media goes out in full.
C24_TextSlicedUnlessWithMedia ==
  pc = "sent" =>
     IF WithMedia
     THEN Len(texts) = 2 /\ texts[2] = body
     ELSE IsSlice(texts[Len(texts)], body)

C24_Witness ==
  /\ pc = "sent"
  /\ ~WithMedia
  /\ Len(body) > MaxMessageLen
  /\ Len(texts[Len(texts)]) = MaxMessageLen

\* the lines of the history file after a commit
CommittedLines == FileLines(fs[OpenFile], <<>>)

\* a line without its last character
Chomp(line) == SubSeq(line, 1, Len(line) - 1)

\* the file holds exactly the set S: one identifier per line, every line ended
\* by a line break, the lines ascending and without duplicates, nothing else
HoldsExactly(S) ==
  LET ls == CommittedLines
  IN /\ Len(ls) = Cardinality(S)
     /\ \A i \in 1..Len(ls) : ls[i][Len(ls[i])] = NL /\ Chomp(ls[i]) \in S
     /\ \A i, j \in 1..Len(ls) : i < j => StrLess(Chomp(ls[i]), Chomp(ls[j]))

Procs == 1..MaxRuns

\* a process that has not loaded the history yet
IdleProc ==
  [pc |-> "idle", posted_links |-> {}, new_links_found |-> FALSE, left |-> 0,
   confirmed |-> {}]

\* the publishes one process makes at most: one per source of main3.py, the one
\* of the group of Pods.py
Publishes == IF prog = "Pods" THEN 1 ELSE NumGroups

overlapRest ==
  <<prog, config, env, body, texts, exclusive, runNo, pc, order, cur,
    posted_links, new_links_found, groupVars, obsGroup, obsRun>>

OverlapInit ==
  /\ prog \in {"Pods", "main3"}
  /\ config \in Configs(prog)
  /\ env = [token |-> TRUE, channel |-> TRUE, gemini |-> TRUE]
  /\ cur = 1
  /\ fs \in {[f \in Files |-> c] : c \in {Missing, FileContent({Idc})}}
  /\ procs = [r \in Procs |-> IdleProc]
  /\ exclusive \in BOOLEAN
  /\ pc = "idle"
  /\ runNo = 0
  /\ order = <<>>
  /\ posted_links = {}
  /\ new_links_found = FALSE
  /\ unseen = <<>>
  /\ queue = <<>>
  /\ sel = NoEntry
  /\ unique_id = None
  /\ image = FALSE
  /\ success = FALSE
  /\ fetched = <<>>
  /\ histAtLoad = {}
  /\ fsAtStart = fs
  /\ log = <<>>
  /\ sent = <<>>
  /\ delivered = [f \in Files |-> [i \in Ids |-> 0]]
  /\ confirmed = [f \in Files |-> {}]
  /\ settled = [f \in Files |-> {}]
  /\ visited = {}
  /\ postedAtBegin = {}
  /\ body = <<>>
  /\ texts = <<>>

\* no other process is between its load and the end of its run
Alone(r) == \A q \in Procs \ {r} : procs[q].pc # "run"

\* load_posted_links() / the load at the head of a Pods group
ProcLoad(r) ==
  /\ procs[r].pc = "idle"
  /\ exclusive => Alone(r)
  /\ procs' = [procs EXCEPT ![r] =
                 [pc |-> "run", posted_links |-> ReadHistory(fs[OpenFile]),
                  new_links_found |-> FALSE, left |-> Publishes,
                  confirmed |-> {}]]
  /\ UNCHANGED <<fs, overlapRest>>

\* an unposted item is published; main3.py adds its link whatever the publisher
\* returned, Pods.py only if it returned True
ProcPublish(r) ==
  /\ procs[r].pc = "run"
  /\ procs[r].left > 0
  /\ \E id \in Ids \ procs[r].posted_links, ok \in BOOLEAN :
       LET add == ok \/ prog # "Pods"
       IN procs' = [procs EXCEPT ![r] =
                      [pc |-> "run",
                       posted_links |-> IF add THEN @.posted_links \cup {id}
                                        ELSE @.posted_links,
                       new_links_found |-> @.new_links_found \/ add,
                       left |-> @.left - 1,
                       confirmed |-> IF ok THEN @.confirmed \cup {id}
                                     ELSE @.confirmed]]
  /\ UNCHANGED <<fs, overlapRest>>

\* a source or group with nothing new, or whose discovery failed
ProcSkip(r) ==
  /\ procs[r].pc = "run"
  /\ procs[r].left > 0
  /\ procs' = [procs EXCEPT ![r].left = @ - 1]
  /\ UNCHANGED <<fs, overlapRest>>

\* if new_links_found: save_posted_links(posted_links) / if success: the
\* rewrite of the group's history file
ProcSave(r) ==
  /\ procs[r].pc = "run"
  /\ procs[r].left = 0
  /\ fs' = IF procs[r].new_links_found
           THEN [fs EXCEPT ![OpenFile] = FileContent(procs[r].posted_links)]
           ELSE fs
  /\ procs' = [procs EXCEPT ![r].pc = "done"]
  /\ UNCHANGED overlapRest

OverlapNext ==
  \E r \in Procs :
    \/ ProcLoad(r)
    \/ ProcPublish(r)
    \/ ProcSkip(r)
    \/ ProcSave(r)

Overlap == OverlapInit /\ [][OverlapNext]_vars

\* every process has ended
AllDone == procs # <<>> /\ \A r \in Procs : procs[r].pc = "done"

\* identifiers some process published with success that the file does not hold
LostUpdates ==
  UNION {procs[r].confirmed : r \in Procs} \ ReadHistory(fs[OpenFile])

\* C26: when no run starts while another is under way, every identifier whose
\* publish a run confirmed is in the history file once all runs have ended; when
\* runs overlap on the file, a confirmed identifier can be absent from it after
\* all of them have ended (the lost update, C26_Witness).
C26_NoLostUpdateWhenExclusive ==
  (exclusive /\ AllDone) => LostUpdates = {}

\* two overlapping runs have ended and an identifier one of them published with
\* success is not in the file; runs that exclude each other have confirmed
\* identifiers too
C26_Witness ==
  /\ ~exclusive
  /\ AllDone
  /\ LostUpdates # {}
  /\ \A r \in Procs : procs[r].confirmed # {}

\* main3/main5: the identifiers the earlier sources of this run handed to
\* send_to_telegram and added to posted_links; those for which a post went out
\* are among them
SentEarlier == postedAtBegin \ histAtLoad

\* the feed of the current source has an entry with identifier id
Surfaced(id) ==
  \/ \E i \in 1..Len(fetched) : id \in IdsOf(cur, fetched[i].entries)
  \/ \E i \in 1..Len(queue) : queue[i].link = id

\* C27: in a run of main3.py or main5.py an identifier for which a post was
\* sent while an earlier source was processed is not selected while a later
\* source is processed: it is neither among the candidates of the random choice
\* nor the selected entry nor an item tried, even if the later feed surfaces it.
C27_SentIdNotSelectedAgain ==
  (prog # "Pods" /\ InRun /\ cur # 0) =>
     /\ settled[POSTED_LINKS_FILE] \subseteq SentEarlier
     /\ sel # NoEntry => SelId \notin SentEarlier
     /\ \A i \in 1..Len(unseen) : UniqueId(cur, unseen[i]) \notin SentEarlier
     /\ \A i \in 1..Len(log) : log[i].id \notin SentEarlier

\* a later source surfaces an identifier whose post an earlier source of the run
\* sent with success, and selects among its entries
C27_Witness ==
  /\ prog # "Pods"
  /\ cur # 0
  /\ \E id \in settled[POSTED_LINKS_FILE] : Surfaced(id)
  /\ \/ pc = "select" /\ unseen # <<>>
     \/ pc = "extract" /\ sel # NoEntry

\* the run is in its commit step: Pods inside `if success:` of the group, main3
\* and main5 inside `if new_links_found:` after the loop over the sources
InCommitStep ==
  IF prog = "Pods"
  THEN pc \in {"commit", "write"} /\ success
  ELSE new_links_found /\ order = <<>> /\ pc \in {"next", "write"}

\* C28: a history file changes only in a step of the commit step; a run in
\* which no group reaches the commit step leaves every history file, a missing
\* one included, exactly as it was before the run.
C28_NoCommitNoWrite ==
  [][fs' # fs => InCommitStep]_vars

\* a run has visited every group, tried an item, reached no commit step, and
\* the files are what they were before the run
C28_Witness ==
  /\ pc = "next"
  /\ order = <<>>
  /\ visited = Groups
  /\ log # <<>>
  /\ ~new_links_found
  /\ \A f \in Files : confirmed[f] = {}
  /\ \E f \in Files : fs[f] = Missing
  /\ \E f \in Files : fs[f] \notin {Missing, <<>>}
  /\ fs = fsAtStart

(***************************************************************************)
(* A group that draws at random, run after run, while its origins keep     *)
(* returning the same items and every extraction, summarization and        *)
(* publish succeeds.  cur is the group; the other groups of the run are    *)
(* left out.  The identifiers of the items are any strings of IdStrings.   *)
(***************************************************************************)
SteadyRuns == MaxSetSize + 2

\* the entries of a feed whose items have the identifiers S
ItemsOf(S) ==
  LET ids == Sorted(S)
  IN [i \in 1..Len(ids) |-> [link |-> ids[i], encl |-> None]]

\* the identifiers of the items the origins return
Items == IdsOf(cur, fetched[1].entries)

steadyRest ==
  <<confVars, order, cur, new_links_found, queue, image, success, fetched, log,
    sent, confirmed, settled, visited, postedAtBegin>>

SteadyInit ==
  /\ prog \in {"Pods", "main5"}
  /\ config \in Configs(prog)
  /\ env = [token |-> TRUE, channel |-> TRUE, gemini |-> TRUE]
  /\ cur \in {g \in Groups : RandomChoice(g)}
  /\ \E S \in IdSets :
       /\ S # {}
       /\ fetched = [i \in 1..NumOrigins |-> [raised |-> FALSE, entries |-> ItemsOf(S)]]
       /\ delivered = [f \in Files |-> [i \in S |-> 0]]
  /\ fs = [f \in Files |-> Missing]
  /\ pc = "idle"
  /\ runNo = 0
  /\ order = <<>>
  /\ posted_links = {}
  /\ new_links_found = FALSE
  /\ unseen = <<>>
  /\ queue = <<>>
  /\ sel = NoEntry
  /\ unique_id = None
  /\ image = FALSE
  /\ success = FALSE
  /\ histAtLoad = {}
  /\ fsAtStart = fs
  /\ log = <<>>
  /\ sent = <<>>
  /\ confirmed = [f \in Files |-> {}]
  /\ settled = [f \in Files |-> {}]
  /\ visited = {}
  /\ postedAtBegin = {}
  /\ body = <<>>
  /\ texts = <<>>
  /\ procs = <<>>
  /\ exclusive = TRUE

\* a run starts and loads the history
SteadyLoad ==
  /\ pc = "idle"
  /\ runNo < SteadyRuns
  /\ runNo' = runNo + 1
  /\ fsAtStart' = fs
  /\ posted_links' = ReadHistory(fs[OpenFile])
  /\ histAtLoad' = ReadHistory(fs[OpenFile])
  /\ pc' = "discover"
  /\ UNCHANGED <<fs, unseen, sel, unique_id, delivered, steadyRest>>

\* the origins are read and the unposted items aggregated; with none the group
\* is skipped
SteadyDiscover ==
  /\ pc = "discover"
  /\ LET all == Aggregate(cur, fetched, posted_links, 1)
         list == IF prog = "Pods" /\ config[cur] = "philosophybites_web"
                 THEN DedupByUrl(all, {}) ELSE all
     IN /\ unseen' = list
        /\ pc' = IF list = <<>> THEN "idle" ELSE "select"
  /\ UNCHANGED <<fs, runNo, posted_links, histAtLoad, fsAtStart, sel, unique_id,
                 delivered, steadyRest>>

\* random.choice, then extraction, summary and publish, all successful, and
\* posted_links.add
SteadyPublish ==
  /\ pc = "select"
  /\ \E i \in 1..Len(unseen) :
       /\ sel' = unseen[i]
       /\ unique_id' = UniqueId(cur, unseen[i])
       /\ delivered' = [delivered EXCEPT ![OpenFile][UniqueId(cur, unseen[i])] = @ + 1]
       /\ posted_links' = posted_links \cup {UniqueId(cur, unseen[i])}
  /\ unseen' = <<>>
  /\ pc' = "write"
  /\ UNCHANGED <<fs, runNo, histAtLoad, fsAtStart, steadyRest>>

\* the history file is rewritten from the set in memory
SteadyWrite ==
  /\ pc = "write"
  /\ fs' = [fs EXCEPT ![OpenFile] = FileContent(posted_links)]
  /\ pc' = "idle"
  /\ UNCHANGED <<runNo, posted_links, histAtLoad, fsAtStart, unseen, sel,
                 unique_id, delivered, steadyRest>>

SteadyNext ==
  \/ SteadyLoad
  \/ SteadyDiscover
  \/ SteadyPublish
  \/ SteadyWrite

Steady == SteadyInit /\ [][SteadyNext]_vars

\* the items published so far
PublishedItems == {id \in Items : delivered[OpenFile][id] >= 1}

\* after r runs: one more item published by each run while items were left, no
\* item published twice, the published ones in the history, and a run that found
\* nothing left has changed nothing
OnePerRun ==
  /\ \A id \in Items : delivered[OpenFile][id] <= 1
  /\ Cardinality(PublishedItems) = Min(runNo, Cardinality(Items))
  /\ ReadHistory(fs[OpenFile]) = PublishedItems
  /\ runNo > Cardinality(Items) => fs = fsAtStart

\* C29: with origins that keep returning the same k items and stages that all
\* succeed, each run of a group that draws at random publishes and commits
\* exactly one new identifier, after k runs every item has been published
\* exactly once, and every later run skips the group and changes nothing.
C29_OnePerRunThenSkipped ==
  pc = "idle" => OnePerRun

\* what holds: the same for items whose identifiers a line of the file can hold
\* as they are
StorableItemsOnePerRun ==
  (pc = "idle" /\ \A s \in Items : Storable(s)) => OnePerRun

\* the groups the loop of the run has still to visit
ToVisit == {order[i] : i \in 1..Len(order)}

\* C30: a run visits every configured group exactly once, in the order the
\* shuffle gave: while it runs, the groups visited and the groups still to visit
\* are disjoint and make up all groups, none is listed twice, and when the run
\* has ended every group has been visited, whatever the order was.
C30_EveryGroupVisitedOnce ==
  /\ (InRun /\ CredentialsOK) =>
        /\ \A i, j \in 1..Len(order) : i # j => order[i] # order[j]
        /\ visited \cap ToVisit = {}
        /\ visited \cup ToVisit = Groups
  /\ RunEnded => (visited = Groups /\ order = <<>>)

\* every call returns: each step of a run is taken in the end, the discoveries
\* included
Returning == Spec /\ WF_vars(BoundedStep) /\ WF_vars(Discover)

\* what holds: a run whose calls all return comes to an end
RunComesToAnEnd == InRun ~> ~InRun

\* what holds: a run of main3.py that has ended has visited every source
Main3VisitsAll ==
  (RunEnded /\ prog = "main3") => visited = Groups
====
